---- MODULE Spec2Model ----
(***************************************************************************)
(* LogPatch: a recipe runner that executes shell commands, streams their   *)
(* output to the console and to optional log files.  The model covers both *)
(* scripts of the repository: logpatch/logpatch.py and its predecessor     *)
(* pkgptch.py.  The variable `program` says which script is running.       *)
(***************************************************************************)
EXTENDS Naturals, Sequences, FiniteSets, TLC

VARIABLES
    program,          \* which script runs: "logpatch" or "pkgptch"
    path_kind,        \* what config_path names: "missing", "dir" or "file"
    config_file,      \* what yaml.safe_load makes of the file at config_path
    selected_recipe,  \* args.recipe
    dirs,             \* the directories that exist
    clock,            \* the wall clock, in ticks of its resolution
    fs,               \* the log files: path -> sequence of lines
    at_start,         \* fs as it was before the run (history)
    pc,               \* the position of the single thread of control
    conf,             \* __main__'s conf
    recipe,           \* exec_recipe's argument
    step,             \* the step of exec_recipe being executed
    cmd,              \* execute's cmd
    log_file,         \* execute's log_file
    open_files,       \* the paths with an open handle
    at_open,          \* content of log_file just before open() (history)
    procs,            \* every process spawned, in spawn order
    line,             \* the line last yielded by subproc_Popen
    yielded,          \* the lines the current generator has yielded (history)
    drain_console,    \* the lines the current drain printed (history)
    drain_file,       \* the lines the current drain wrote to f_out (history)
    produced,         \* the paths opened by this run (history)
    console,          \* everything printed by print()
    exc,              \* the exception in flight
    reported          \* logger.error was called by the except clause

vars == << program, path_kind, config_file, selected_recipe, dirs, clock, fs,
           at_start, pc, conf, recipe, step, cmd, log_file, open_files,
           at_open, procs, line, yielded, drain_console, drain_file, produced,
           console, exc, reported >>

(***************************************************************************)
(* Bounds of the model.                                                    *)
(***************************************************************************)
MaxLines == 2          \* lines one command emits at most
MaxRetCode == 2        \* exit codes are 0..MaxRetCode
TicksPerSecond == 2    \* clock ticks in one second
MaxDefects == 2        \* deviations of one entry from a valid recipe (validator inputs)

RetCodes == 0..MaxRetCode

(***************************************************************************)
(* Deserialised YAML values.  A value carries its Python type; its payload *)
(* is kept as text.                                                        *)
(***************************************************************************)
Str(s) == [t |-> "str", v |-> s]
Bool(b) == [t |-> "bool", v |-> IF b THEN "true" ELSE "false"]
Int0 == [t |-> "int", v |-> "0"]
Absent == [t |-> "absent", v |-> ""]

\* Python truthiness of a value, as `if recipe[...]` evaluates it
Truthy(x) ==
    CASE x.t = "bool" -> x.v = "true"
      [] x.t = "str"  -> x.v # ""
      [] x.t = "int"  -> x.v # "0"
      [] OTHER        -> FALSE

StringFields == {"log_directory", "name", "patch_cmd", "package_version_cmd"}
BooleanFields == {"log_package_version_cmd", "log_patch_cmd"}
Required == StringFields \cup BooleanFields
Fields == Required \cup {"extra"}

\* the type the schema's `properties` gives a field ("" when it names none)
SchemaType(f) ==
    IF f \in StringFields THEN "str"
    ELSE IF f \in BooleanFields THEN "bool"
    ELSE ""

LogDir == "/tmp/logs"
Cwd == "."
PatchCmd == "apt upgrade"
VersionCmd == "dpkg -l"
Names == {"demo", "package_versions_pre-patch"}

\* an entry of the document: an object (a mapping of fields) or a scalar
Object(f) == [obj |-> TRUE, f |-> f]
Scalar == [obj |-> FALSE, f |-> [x \in Fields |-> Absent]]

ValidRecipe(name, lpv, lp) ==
    Object([x \in Fields |->
        CASE x = "log_directory"           -> Str(LogDir)
          [] x = "log_package_version_cmd" -> Bool(lpv)
          [] x = "log_patch_cmd"           -> Bool(lp)
          [] x = "name"                    -> Str(name)
          [] x = "patch_cmd"               -> Str(PatchCmd)
          [] x = "package_version_cmd"     -> Str(VersionCmd)
          [] OTHER                         -> Absent])

With(e, field, val) == Object([e.f EXCEPT ![field] = val])

Keys == {"r1", "r2"}
NoEntry == [present |-> FALSE, e |-> Scalar]
Entry(e) == [present |-> TRUE, e |-> e]

\* documents: a mapping of keys to entries, or a value that is no mapping
Mapping(m) == [kind |-> "mapping", m |-> m]
EmptyMapping == Mapping([k \in Keys |-> NoEntry])
NullDoc == [kind |-> "null", m |-> EmptyMapping.m]
YamlError == [kind |-> "yaml_error", m |-> EmptyMapping.m]

(***************************************************************************)
(* validate_schema_conf: the errors Draft7Validator.iter_errors yields for *)
(* the schema of the source, and the function's return value.              *)
(***************************************************************************)
RequiredFields_drop == Required \ {"log_directory"}

RequiredFields == Required

EntryErrors(k, e) ==
    IF ~e.obj THEN {<<k, "", "type">>}
    ELSE {<<k, f, "type">> : f \in {g \in Fields :
                 /\ SchemaType(g) # ""
                 /\ e.f[g] # Absent
                 /\ e.f[g].t # SchemaType(g)}}
         \cup {<<k, f, "required">> : f \in {g \in RequiredFields : e.f[g] = Absent}}

SchemaErrors(doc) ==
    IF doc.kind # "mapping" THEN {<<"", "", "type">>}
    ELSE UNION {EntryErrors(k, doc.m[k].e) : k \in {j \in Keys : doc.m[j].present}}

validate_schema_conf(doc) == IF SchemaErrors(doc) = {} THEN 0 ELSE 1

(***************************************************************************)
(* The inputs of a run.                                                    *)
(***************************************************************************)
\* A line of output is identified by the process that wrote it and its
\* position in that process's output; the program never looks inside a line.
Line(i, n) == [proc |-> i, n |-> n]
NoLine == Line(0, 0)
OldLine == Line(0, 1)

Path(d, ts, sfx) == [dir |-> d, ts |-> ts, suffix |-> sfx]
NoFile == [dir |-> "", ts |-> 0, suffix |-> ""]
PreSuffix == "package_versions_pre-patch"
PostSuffix == "package_versions_post-patch"

NoExc == [kind |-> "none", cmd |-> "", rc |-> 0]
CalledProcessError(rc, c) == [kind |-> "CalledProcessError", cmd |-> c, rc |-> rc]
TypeError == [kind |-> "TypeError", cmd |-> "", rc |-> 0]

ValidEntries == {ValidRecipe(n, lpv, lp) : n \in Names, lpv \in BOOLEAN, lp \in BOOLEAN}

InvalidEntries ==
    { Scalar,
      With(ValidRecipe("demo", TRUE, TRUE), "log_directory", Absent),
      With(ValidRecipe("demo", FALSE, TRUE), "log_patch_cmd", Str("yes")),
      With(ValidRecipe("demo", TRUE, FALSE), "patch_cmd", Absent),
      With(ValidRecipe("demo", FALSE, FALSE), "patch_cmd", Int0) }

RunDocs ==
    {Mapping([k \in Keys |-> IF k = "r1" THEN Entry(e) ELSE NoEntry]) :
        e \in ValidEntries \cup InvalidEntries}
    \cup {EmptyMapping, NullDoc, YamlError}

\* files that may exist before the run: none, or one holding an old line
OldFiles ==
    {Path(d, 0, sfx) : d \in {LogDir, Cwd}, sfx \in {PreSuffix, "demo"}}

NoFiles == [p \in {} |-> <<>>]

Idle ==
    /\ pc = "m_exists"
    /\ conf = EmptyMapping
    /\ recipe = Scalar
    /\ step = "none"
    /\ cmd = Absent
    /\ log_file = NoFile
    /\ open_files = {}
    /\ at_open = <<>>
    /\ procs = <<>>
    /\ line = NoLine
    /\ yielded = <<>>
    /\ drain_console = <<>>
    /\ drain_file = <<>>
    /\ produced = {}
    /\ console = <<>>
    /\ exc = NoExc
    /\ reported = FALSE

Init ==
    /\ program \in {"logpatch", "pkgptch"}
    /\ path_kind \in {"missing", "dir", "file"}
    /\ config_file \in RunDocs
    /\ selected_recipe \in Keys
    /\ dirs \in {{Cwd}, {Cwd, LogDir}}
    /\ clock \in 0..(TicksPerSecond - 1)
    /\ fs \in {NoFiles} \cup {[p \in {q} |-> <<OldLine>>] : q \in {o \in OldFiles : o.dir \in dirs}}
    /\ at_start = fs
    /\ Idle

(***************************************************************************)
(* __main__ up to the call of exec_recipe.                                 *)
(***************************************************************************)
env == << program, path_kind, config_file, selected_recipe, dirs, at_start >>
drain == << cmd, log_file, open_files, at_open, procs, line, yielded,
            drain_console, drain_file, produced, console, exc >>

CheckExists ==
    /\ pc = "m_exists"
    /\ pc' = IF path_kind = "missing" THEN "exit1" ELSE "m_isfile"
    /\ UNCHANGED << env, clock, fs, conf, recipe, step, drain, reported >>

CheckIsFile ==
    /\ pc = "m_isfile"
    /\ pc' = IF path_kind # "file" THEN "exit1" ELSE "m_parse"
    /\ UNCHANGED << env, clock, fs, conf, recipe, step, drain, reported >>

\* logpatch.py validates the schema after parsing, pkgptch.py does not
AfterParse(prog) == IF prog = "logpatch" THEN "m_validate" ELSE "m_lookup"

ParseConfig ==
    /\ pc = "m_parse"
    /\ IF config_file.kind = "yaml_error"
         THEN pc' = "exit1" /\ UNCHANGED conf
         ELSE pc' = AfterParse(program) /\ conf' = config_file
    /\ UNCHANGED << env, clock, fs, recipe, step, drain, reported >>

ValidateSchema ==
    /\ pc = "m_validate"
    /\ pc' = IF validate_schema_conf(conf) # 0 THEN "exit1" ELSE "m_lookup"
    /\ UNCHANGED << env, clock, fs, conf, recipe, step, drain, reported >>

\* conf[selected_recipe]: TypeError on None, KeyError on an absent key
Lookup ==
    /\ pc = "m_lookup"
    /\ IF conf.kind = "mapping" /\ conf.m[selected_recipe].present
         THEN recipe' = conf.m[selected_recipe].e /\ pc' = "r_info"
         ELSE UNCHANGED recipe /\ pc' = "crashed"
    /\ UNCHANGED << env, clock, fs, conf, step, drain, reported >>

(***************************************************************************)
(* exec_recipe.                                                            *)
(***************************************************************************)
Steps == {"pre", "patch", "post"}

StepPc(s) == CASE s = "pre" -> "r_pre" [] s = "patch" -> "r_patch" [] OTHER -> "r_post"

AfterStep_skip(s) == CASE s = "pre" -> "r_post" [] s = "patch" -> "r_post" [] OTHER -> "m_exit"

\* the statement that follows a step of exec_recipe
AfterStep(s) == CASE s = "pre" -> "r_patch" [] s = "patch" -> "r_post" [] OTHER -> "m_exit"

\* the flag that guards a step, and the command the step runs
StepFlag(s) == IF s = "patch" THEN "log_patch_cmd" ELSE "log_package_version_cmd"
StepCmd(s) == IF s = "patch" THEN "patch_cmd" ELSE "package_version_cmd"
StepSuffix(s, rec) ==
    CASE s = "pre" -> PreSuffix [] s = "patch" -> rec.f["name"].v [] OTHER -> PostSuffix

\* strftime of the current time: '%Y%m%dT%H%M%S.%fZ' keeps the clock's
\* resolution, '%Y%m%dT%H%M%SZ' cuts it to whole seconds
datetime_now_utc(prog, clk) == IF prog = "logpatch" THEN clk ELSE clk \div TicksPerSecond

\* logpatch.py joins log_directory and the file name, pkgptch.py uses the bare name
LogFileName(prog, rec, clk, s) ==
    Path(IF prog = "logpatch" THEN rec.f["log_directory"].v ELSE Cwd,
         datetime_now_utc(prog, clk), StepSuffix(s, rec))

\* the keys a step reads from the recipe before it calls execute
StepReads(prog, s, logged) ==
    {StepCmd(s)} \cup (IF logged /\ prog = "logpatch" THEN {"log_directory"} ELSE {})

RecipeInfo ==
    /\ pc = "r_info"
    /\ pc' = IF recipe.obj /\ recipe.f["name"] # Absent THEN "r_pre" ELSE "crashed"
    /\ UNCHANGED << env, clock, fs, conf, recipe, step, drain, reported >>

BeginStep(s) ==
    /\ pc = StepPc(s)
    /\ LET flag == recipe.f[StepFlag(s)]
           logged == Truthy(flag)
       IN  IF flag = Absent
             THEN pc' = "crashed"
                  /\ UNCHANGED << step, cmd, log_file, yielded, drain_console, drain_file >>
           ELSE IF ~logged /\ s # "patch"
             THEN pc' = AfterStep(s)
                  /\ UNCHANGED << step, cmd, log_file, yielded, drain_console, drain_file >>
           ELSE IF \E k \in StepReads(program, s, logged) : recipe.f[k] = Absent
             THEN pc' = "crashed"
                  /\ UNCHANGED << step, cmd, log_file, yielded, drain_console, drain_file >>
           ELSE /\ pc' = "x_open"
                /\ step' = s
                /\ cmd' = recipe.f[StepCmd(s)]
                /\ log_file' = IF logged THEN LogFileName(program, recipe, clock, s) ELSE NoFile
                /\ yielded' = <<>>
                /\ drain_console' = <<>>
                /\ drain_file' = <<>>
    /\ UNCHANGED << env, clock, fs, conf, recipe, open_files, at_open, procs, line,
                    produced, console, exc, reported >>

BeginPre == BeginStep("pre")
BeginPatch == BeginStep("patch")
BeginPost == BeginStep("post")

(***************************************************************************)
(* execute and the generator subproc_Popen.                                *)
(***************************************************************************)
\* open(log_file, 'a') in logpatch.py, open(log_file, 'w') in pkgptch.py
OpenMode(prog) == IF prog = "logpatch" THEN "a" ELSE "w"

Opened(mode, files, p) ==
    [q \in DOMAIN files \cup {p} |->
        IF q = p
          THEN (IF mode = "a" /\ p \in DOMAIN files THEN files[p] ELSE <<>>)
          ELSE files[q]]

ExecOpen ==
    /\ pc = "x_open"
    /\ IF log_file = NoFile
         THEN pc' = "x_popen" /\ UNCHANGED << fs, open_files, at_open, produced >>
       ELSE IF log_file.dir \notin dirs
         THEN pc' = "crashed" /\ UNCHANGED << fs, open_files, at_open, produced >>
       ELSE /\ pc' = "x_popen"
            /\ at_open' = IF log_file \in DOMAIN fs THEN fs[log_file] ELSE <<>>
            /\ fs' = Opened(OpenMode(program), fs, log_file)
            /\ open_files' = open_files \cup {log_file}
            /\ produced' = produced \cup {log_file}
    /\ UNCHANGED << env, clock, conf, recipe, step, cmd, log_file, procs, line, yielded,
                    drain_console, drain_file, console, exc, reported >>

NewProc(s, c) ==
    [step |-> s, cmd |-> c, state |-> "running", pipe |-> <<>>, emitted |-> <<>>, rc |-> 0]

\* the first next() of the generator: subprocess.Popen(cmd, shell=True, ...)
GenPopen ==
    /\ pc = "x_popen"
    /\ IF cmd.t # "str"
         THEN exc' = TypeError /\ pc' = "x_close" /\ UNCHANGED << procs, clock >>
         ELSE /\ procs' = Append(procs, NewProc(step, cmd.v))
              /\ clock' = clock + 1
              /\ pc' = "x_readline"
              /\ UNCHANGED exc
    /\ UNCHANGED << env, fs, conf, recipe, step, cmd, log_file, open_files, at_open, line,
                    yielded, drain_console, drain_file, produced, console, reported >>

\* the spawned process writes a line to its stdout/stderr pipe
ProcEmit ==
    /\ \E i \in DOMAIN procs :
         /\ procs[i].state = "running"
         /\ Len(procs[i].emitted) < MaxLines
         /\ LET l == Line(i, Len(procs[i].emitted) + 1)
            IN  procs' = [procs EXCEPT ![i].pipe = Append(@, l),
                                       ![i].emitted = Append(@, l)]
    /\ UNCHANGED << env, clock, fs, pc, conf, recipe, step, cmd, log_file, open_files,
                    at_open, line, yielded, drain_console, drain_file, produced, console,
                    exc, reported >>

\* the spawned process exits
ProcExit ==
    /\ \E i \in DOMAIN procs : \E rc \in RetCodes :
         /\ procs[i].state = "running"
         /\ procs' = [procs EXCEPT ![i].state = "exited", ![i].rc = rc]
    /\ UNCHANGED << env, clock, fs, pc, conf, recipe, step, cmd, log_file, open_files,
                    at_open, line, yielded, drain_console, drain_file, produced, console,
                    exc, reported >>

AtEOF_exited(p) == p.state = "exited"

\* readline returns "" once the pipe is empty and its write end is closed
AtEOF(p) == p.pipe = <<>> /\ p.state = "exited"

GenReadline ==
    /\ pc = "x_readline"
    /\ LET i == Len(procs)
       IN  IF AtEOF(procs[i])
             THEN pc' = "x_wait" /\ UNCHANGED << procs, line, yielded >>
             ELSE /\ procs[i].pipe # <<>>
                  /\ line' = Head(procs[i].pipe)
                  /\ yielded' = Append(yielded, Head(procs[i].pipe))
                  /\ procs' = [procs EXCEPT ![i].pipe = Tail(@)]
                  /\ pc' = "x_print"
    /\ UNCHANGED << env, clock, fs, conf, recipe, step, cmd, log_file, open_files, at_open,
                    drain_console, drain_file, produced, console, exc, reported >>

AfterPrint_nowrite(f) == "x_readline"

\* the statement after print(): f_out.write(line) when there is a log file
AfterPrint(f) == IF f # NoFile THEN "x_write" ELSE "x_readline"

ExecPrint ==
    /\ pc = "x_print"
    /\ console' = Append(console, line)
    /\ drain_console' = Append(drain_console, line)
    /\ pc' = AfterPrint(log_file)
    /\ UNCHANGED << env, clock, fs, conf, recipe, step, cmd, log_file, open_files, at_open,
                    procs, line, yielded, drain_file, produced, exc, reported >>

ExecWrite ==
    /\ pc = "x_write"
    /\ fs' = [fs EXCEPT ![log_file] = Append(@, line)]
    /\ drain_file' = Append(drain_file, line)
    /\ pc' = "x_readline"
    /\ UNCHANGED << env, clock, conf, recipe, step, cmd, log_file, open_files, at_open,
                    procs, line, yielded, drain_console, produced, console, exc, reported >>

\* popen.stdout.close(); return_code = popen.wait(); if return_code: raise
GenWait ==
    /\ pc = "x_wait"
    /\ procs[Len(procs)].state = "exited"
    /\ exc' = IF procs[Len(procs)].rc # 0
                THEN CalledProcessError(procs[Len(procs)].rc, cmd.v)
                ELSE NoExc
    /\ pc' = "x_close"
    /\ UNCHANGED << env, clock, fs, conf, recipe, step, cmd, log_file, open_files, at_open,
                    procs, line, yielded, drain_console, drain_file, produced, console,
                    reported >>

Closed_onsuccess(files, f, e) == IF e = NoExc THEN files \ {f} ELSE files

\* leaving the with block closes f_out, whether or not an exception is in flight
Closed(files, f, e) == files \ {f}

Caught_none(e) == FALSE

\* except subprocess.CalledProcessError
Caught(e) == e.kind = "CalledProcessError"

AfterExecute_swallow(s, e) == AfterStep(s)

\* where control goes when execute ends: on to the next statement of
\* exec_recipe, or out of exec_recipe with the exception
AfterExecute(s, e) ==
    IF e = NoExc THEN AfterStep(s)
    ELSE IF Caught(e) THEN "m_caught"
    ELSE "crashed"

ExecClose ==
    /\ pc = "x_close"
    /\ open_files' = Closed(open_files, log_file, exc)
    /\ pc' = AfterExecute(step, exc)
    /\ UNCHANGED << env, clock, fs, conf, recipe, step, cmd, log_file, at_open, procs, line,
                    yielded, drain_console, drain_file, produced, console, exc, reported >>

\* logger.error(f"Caught subprocess.CalledProcessError:\n{excpt}")
MainCaught ==
    /\ pc = "m_caught"
    /\ reported' = TRUE
    /\ pc' = "m_exit"
    /\ UNCHANGED << env, clock, fs, conf, recipe, step, drain >>

\* exit(0)
MainExit ==
    /\ pc = "m_exit"
    /\ pc' = "exit0"
    /\ UNCHANGED << env, clock, fs, conf, recipe, step, drain, reported >>

Next ==
    \/ CheckExists
    \/ CheckIsFile
    \/ ParseConfig
    \/ ValidateSchema
    \/ Lookup
    \/ RecipeInfo
    \/ BeginPre
    \/ BeginPatch
    \/ BeginPost
    \/ ExecOpen
    \/ GenPopen
    \/ ProcEmit
    \/ ProcExit
    \/ GenReadline
    \/ ExecPrint
    \/ ExecWrite
    \/ GenWait
    \/ ExecClose
    \/ MainCaught
    \/ MainExit

Spec == Init /\ [][Next]_vars

(***************************************************************************)
(* The validator on its own: logpatch.py parses and validates a document   *)
(* drawn from every mapping over Keys whose entries deviate from a valid   *)
(* recipe in at most MaxDefects of the required fields.                    *)
(***************************************************************************)
FieldValues(f) ==
    CASE f = "extra" -> {Absent, Int0}
      [] f \in {"patch_cmd", "log_patch_cmd"} -> {Absent, Str("s"), Bool(TRUE), Int0}
      [] OTHER -> {Absent, Str("s"), Bool(TRUE)}

Defects(f) == Cardinality({g \in Required : f[g].t # SchemaType(g)})

ValidatorEntries ==
    {Scalar} \cup
    {Object(f) : f \in {g \in [Fields -> {Absent, Str("s"), Bool(TRUE), Int0}] :
                          /\ \A x \in Fields : g[x] \in FieldValues(x)
                          /\ Defects(g) <= MaxDefects}}

ValidatorSlots == {NoEntry} \cup {Entry(e) : e \in ValidatorEntries}

InitValidate ==
    /\ program = "logpatch"
    /\ path_kind = "file"
    /\ \E e1 \in ValidatorSlots : \E e2 \in ValidatorSlots :
         config_file = Mapping([k \in Keys |-> IF k = "r1" THEN e1 ELSE e2])
    /\ selected_recipe = "r1"
    /\ dirs = {Cwd, LogDir}
    /\ clock = 0
    /\ fs = NoFiles
    /\ at_start = fs
    /\ Idle

NextValidate ==
    \/ CheckExists
    \/ CheckIsFile
    \/ ParseConfig
    \/ ValidateSchema

SpecValidate == InitValidate /\ [][NextValidate]_vars

(***************************************************************************)
(* Properties.                                                             *)
(***************************************************************************)
IsPrefix(a, b) == Len(a) <= Len(b) /\ SubSeq(b, 1, Len(a)) = a
IsSuffix(a, b) == Len(a) <= Len(b) /\ SubSeq(b, Len(b) - Len(a) + 1, Len(b)) = a

Started == [i \in DOMAIN procs |-> procs[i].step]
Failed(i) == procs[i].state = "exited" /\ procs[i].rc # 0
Running == {i \in DOMAIN procs : procs[i].state = "running"}
LogsVersions == Truthy(recipe.f["log_package_version_cmd"])
LogsPatch == Truthy(recipe.f["log_patch_cmd"])
Expected ==
    (IF LogsVersions THEN <<"pre">> ELSE <<>>) \o <<"patch">>
        \o (IF LogsVersions THEN <<"post">> ELSE <<>>)
InGenerator == pc \in {"x_readline", "x_print", "x_write", "x_wait"}

\* C1 (fail-fast): a command that exited non-zero is the last command the
\* run ever started: every command before the last one exited with 0, no
\* patch command exists when the pre-patch inventory failed, and no post-patch
\* inventory exists when the patch command failed.
C1_FailFast ==
    /\ \A i \in DOMAIN procs : i < Len(procs) => procs[i].state = "exited" /\ procs[i].rc = 0
    /\ \A i \in DOMAIN procs : Failed(i) /\ procs[i].step = "pre"
          => \A j \in DOMAIN procs : procs[j].step # "patch"
    /\ \A i \in DOMAIN procs : Failed(i) /\ procs[i].step = "patch"
          => \A j \in DOMAIN procs : procs[j].step # "post"

\* the patch command failed after a successful pre-patch inventory and the run ended
C1_Witness ==
    /\ pc = "exit0"
    /\ Started = <<"pre", "patch">>
    /\ Failed(2)
    /\ LogsVersions

\* C2 (strict step order): the commands started so far are a prefix of
\* pre (if log_package_version_cmd), patch, post (if log_package_version_cmd),
\* each step runs its own command string, a command is started only when
\* every earlier one has exited, at most one is running, patch is started at
\* most once, and a run in which nothing failed has started all of them.
C2_StepOrder ==
    /\ IsPrefix(Started, Expected)
    /\ \A i \in DOMAIN procs : procs[i].cmd = recipe.f[StepCmd(procs[i].step)].v
    /\ \A i \in DOMAIN procs : i < Len(procs) => procs[i].state = "exited"
    /\ Cardinality(Running) <= 1
    /\ Cardinality({i \in DOMAIN procs : procs[i].step = "patch"}) <= 1
    /\ (pc = "exit0" /\ ~reported) => Started = Expected

\* a run with log_package_version_cmd that started all three commands and ended
C2_Witness ==
    /\ pc = "exit0"
    /\ ~reported
    /\ Started = <<"pre", "patch", "post">>

\* C3 (drain before fail): what the generator has yielded is a prefix of
\* what the command emitted; when the generator ends it has yielded exactly
\* the emitted lines; it ends without error iff the exit code is 0, and a
\* CalledProcessError carries the command and the exit code and is raised
\* only when every emitted line was yielded, printed and (with a log file)
\* written.
C3_DrainBeforeFail ==
    /\ InGenerator => IsPrefix(yielded, procs[Len(procs)].emitted)
    /\ (pc = "x_close" /\ exc.kind # "TypeError") =>
          /\ procs[Len(procs)].state = "exited"
          /\ yielded = procs[Len(procs)].emitted
          /\ (procs[Len(procs)].rc = 0 <=> exc = NoExc)
    /\ exc.kind = "CalledProcessError" =>
          /\ exc = CalledProcessError(procs[Len(procs)].rc, procs[Len(procs)].cmd)
          /\ exc.rc # 0
          /\ yielded = procs[Len(procs)].emitted
          /\ drain_console = procs[Len(procs)].emitted
          /\ (log_file # NoFile => drain_file = procs[Len(procs)].emitted)

\* a command with a log file emitted two lines and exited non-zero
C3_Witness ==
    /\ exc.kind = "CalledProcessError"
    /\ pc = "x_close"
    /\ log_file # NoFile
    /\ Len(procs[Len(procs)].emitted) >= 2

\* C4 (console/file agreement): during a drain with a log file the lines
\* written to the file are a prefix of the lines printed, at most one line
\* behind; they are equal whenever the next line is requested and when the
\* drain has ended; and they are the tail of the file.
C4_ConsoleFileAgreement ==
    log_file # NoFile =>
        /\ IsPrefix(drain_file, drain_console)
        /\ Len(drain_console) <= Len(drain_file) + 1
        /\ pc # "x_write" => drain_file = drain_console
        /\ pc = "x_readline" => drain_file = yielded
        /\ log_file \in produced => IsSuffix(drain_file, fs[log_file])

\* a drain with a log file wrote two lines and ended by CalledProcessError
C4_Witness ==
    /\ pc = "m_caught"
    /\ log_file # NoFile
    /\ Len(drain_file) >= 2

\* C5 (append, never overwrite): while a log file is open and afterwards its
\* content is what it held before open() followed by what the drain wrote,
\* and files the run did not open keep their content.
C5_AppendNeverOverwrite ==
    /\ (log_file # NoFile /\ log_file \in produced /\ pc # "x_open")
          => fs[log_file] = at_open \o drain_file
    /\ \A p \in DOMAIN at_start : p \notin produced => fs[p] = at_start[p]

\* C5 restricted to logpatch.py, which opens its log files with mode 'a'
C5_OnLogpatch == program = "logpatch" => C5_AppendNeverOverwrite

\* C6 (log files follow the flags): when the run ended and no command
\* failed, the number of log files produced is 2 if log_package_version_cmd
\* plus 1 if log_patch_cmd, all of them are inside log_directory, their
\* suffixes are those of the steps that log, every logged command's output
\* is the tail of a file with its step's suffix, and without any flag
\* exactly one command, the patch command, ran.
C6_LogFilesFollowFlags ==
    (pc = "exit0" /\ ~reported) =>
        /\ Cardinality(produced) = (IF LogsVersions THEN 2 ELSE 0) + (IF LogsPatch THEN 1 ELSE 0)
        /\ \A p \in produced : p.dir = recipe.f["log_directory"].v
        /\ {p.suffix : p \in produced} =
              (IF LogsVersions THEN {PreSuffix, PostSuffix} ELSE {})
                \cup (IF LogsPatch THEN {recipe.f["name"].v} ELSE {})
        /\ \A i \in DOMAIN procs :
              (procs[i].step # "patch" \/ LogsPatch) =>
                  \E p \in produced :
                      /\ p.suffix = StepSuffix(procs[i].step, recipe)
                      /\ IsSuffix(procs[i].emitted, fs[p])
        /\ (~LogsVersions /\ ~LogsPatch) => Started = <<"patch">>

\* C6 restricted to logpatch.py, which joins log_directory and the file name
C6_OnLogpatch == program = "logpatch" => C6_LogFilesFollowFlags

\* the configuration errors that end the invocation
FatalConfig ==
    \/ path_kind # "file"
    \/ config_file.kind # "yaml_error" /\ validate_schema_conf(config_file) # 0
    \/ config_file.kind = "mapping" /\ ~config_file.m[selected_recipe].present

\* C7 (no command before a fatal configuration error): when the path is
\* missing or no regular file, the document fails the schema, or the
\* selected recipe is not in the document, no process is ever spawned.
C7_NoCommandBeforeFatal == FatalConfig => procs = <<>>

\* C7 restricted to logpatch.py, which validates the schema before the lookup
C7_OnLogpatch == program = "logpatch" => C7_NoCommandBeforeFatal

\* C9 (a failing command does not crash the run): once a command has
\* exited non-zero the run never ends other than by exit(0) with the
\* failure reported, and until then it can always take a step.
C9_FailureIsCaught ==
    (\E i \in DOMAIN procs : Failed(i)) =>
        /\ pc # "crashed" /\ pc # "exit1"
        /\ pc \in {"m_exit", "exit0"} => reported
        /\ pc # "exit0" => ENABLED Next

\* the run ended by exit(0) after a failed command was reported
C9_Witness ==
    /\ pc = "exit0"
    /\ reported
    /\ \E i \in DOMAIN procs : Failed(i)

\* C10 (log file handle scope): at most one log file is open, only the
\* log file of the current drain and only between its open() and the end
\* of its with block; it is open all through the generator's run.
C10_HandleScope ==
    /\ Cardinality(open_files) <= 1
    /\ open_files # {} =>
          /\ open_files = {log_file}
          /\ pc \in {"x_popen", "x_readline", "x_print", "x_write", "x_wait", "x_close"}
    /\ (InGenerator /\ log_file # NoFile) => open_files = {log_file}

\* a drain with a log file ended by CalledProcessError and the file is closed
C10_Witness ==
    /\ pc = "m_caught"
    /\ log_file # NoFile
    /\ log_file \in produced
    /\ open_files = {}

\* an entry that meets the recipe shape of the data model
WellFormed(e) ==
    /\ e.obj
    /\ e.f["log_directory"].t = "str"
    /\ e.f["name"].t = "str"
    /\ e.f["patch_cmd"].t = "str"
    /\ e.f["package_version_cmd"].t = "str"
    /\ e.f["log_package_version_cmd"].t = "bool"
    /\ e.f["log_patch_cmd"].t = "bool"

Present(doc) == {k \in Keys : doc.m[k].present}

\* C8 (schema validation is exact): validation passes exactly for the
\* documents whose every entry is an object with the four string and two
\* boolean fields, whatever extra field it has; when it fails, every
\* offending entry is named by an error.
C8_ValidationExact ==
    /\ pc = "m_lookup" => \A k \in Present(conf) : WellFormed(conf.m[k].e)
    /\ pc = "exit1" =>
          /\ \E k \in Present(conf) : ~WellFormed(conf.m[k].e)
          /\ \A k \in Present(conf) : ~WellFormed(conf.m[k].e)
                => \E err \in SchemaErrors(conf) : err[1] = k
    /\ pc \in {"m_lookup", "exit1"} =>
          (validate_schema_conf(conf) = 0 <=> \A k \in Present(conf) : WellFormed(conf.m[k].e))

\* validation passed for a document of two entries, one with an extra field
C8_Witness ==
    /\ pc = "m_lookup"
    /\ Present(conf) = Keys
    /\ conf.m["r1"].e.f["extra"] # Absent

====
